---- MODULE Spec2Model ----
(***************************************************************************)
(* Model of the ERA5 retrieval / post-processing driver                    *)
(* (ERA5_retrieve_postproc.py, config.py).                                 *)
(*                                                                         *)
(* main() is a sequential program: its position is pc and its local        *)
(* variables keep the names they have in the source.  The worker           *)
(* processes it starts (multiprocessing.Process) run concurrently with it  *)
(* and end on their own, with or without a fault.  The file system is the  *)
(* raw files of tmpdir, the per-year and merged files of storedir/freq and *)
(* the resampled files of storedir/var/cadence.                            *)
(*                                                                         *)
(* Years are counted from the first year of the archive: year 1, 2, ...    *)
(* Time stamps are hours since the start of that year's first day.         *)
(***************************************************************************)
EXTENDS Integers, Sequences, FiniteSets, TLC

\* ------------------------------------------------------------ bounds
MaxYear == 3
MaxProcs == 2
\* at most this many workers of a run end with a fault
MaxFaults == 1

Years == 1..MaxYear
\* the calendar year the update detection stops at
ThisYear == MaxYear

VarNames == <<"tp", "t2m">>
VarLists == {SubSeq(VarNames, 1, n) : n \in 1..Len(VarNames)}
Vars == {VarNames[i] : i \in 1..Len(VarNames)}

Freqs == {"mon", "1hr"}

\* hours of the first time step data can come with: 06:00 and 12:00 of the
\* second day, 00:00 of the third
StartTimes == {30, 36, 48}

VARIABLES
    args,           \* parsed command line: config (given or not), nprocs (<<>>: not given), update
    config,         \* the loaded YAML document
    pc,             \* position of main()
    vi,             \* index of var in varlist (the for loop of line 77)
    year1, year2, update, nprocs, do_retrieve, do_postproc,
    years,          \* list of years of the current variable
    yearlist,       \* the batches
    bi, yi,         \* indices of lyears in yearlist and of year in lyears
    processes,      \* the workers appended to the list processes
    first_year, last_year, filepattern, mergefile,
    time_list, xi,  \* cadences of the resampling and the index of x in time_list
    active,         \* the worker processes started and not yet ended
    rawfiles,       \* tmpdir/var/<year>.grib
    peryear,        \* storedir/freq/<var>_<year>.nc -> "none", "old" or "new" content
    merged,         \* storedir/freq/<var>_<first>-<last>.nc
    mtime,          \* first time step of the file mergefile
    tempfile,       \* tmpdir/temp_align.nc exists
    resampled,      \* storedir/var/x/<var>_<first>-<last>.nc, with "old" or "new" content
    dirs,           \* the directories under tmpdir and storedir
    merged0,        \* the merged files present when the run started
    faults          \* number of workers that ended with a fault

vars == <<args, config, pc, vi, year1, year2, update, nprocs, do_retrieve, do_postproc,
          years, yearlist, bi, yi, processes, first_year, last_year, filepattern,
          mergefile, time_list, xi, active, rawfiles, peryear, merged, mtime,
          tempfile, resampled, dirs, merged0, faults>>

locals == <<year1, year2, update, nprocs, do_retrieve, do_postproc>>
batchvars == <<years, yearlist, bi, yi, processes>>
mergevars == <<first_year, last_year, filepattern, mergefile>>
resvars == <<time_list, xi>>
files == <<rawfiles, peryear, merged, mtime, tempfile, resampled, dirs>>
inputs == <<args, config, merged0>>

\* ------------------------------------------------------------ helpers
Min(a, b) == IF a < b THEN a ELSE b

SetMax(S) == CHOOSE x \in S : \A y \in S : y <= x
SetMin(S) == CHOOSE x \in S : \A y \in S : x <= y

\* mutant of AnyPostproc: the post-processing runs whatever the switches
AnyPostprocTrue(c) == TRUE

\* any([do_postproc_6h, do_postproc_day, do_postproc_mon])
AnyPostproc(c) == c.do_postproc_6h \/ c.do_postproc_day \/ c.do_postproc_mon

\* mutant of YearsOf: the bounds of an empty range are taken in the other order
YearsOfSwapped(y1, y2) ==
    [i \in 1..(IF y2 >= y1 THEN y2 - y1 + 1 ELSE y1 - y2 + 1) |->
        (IF y2 >= y1 THEN y1 ELSE y2) + i - 1]

\* [str(i) for i in range(year1, year2+1)]
YearsOf(y1, y2) == [i \in 1..(IF y2 >= y1 THEN y2 - y1 + 1 ELSE 0) |-> y1 + i - 1]

\* mutant of BatchStarts: a last batch shorter than nprocs is dropped
BatchStartsFullOnly(L, n) == {i \in 0..(L - 1) : i % n = 0 /\ i + n <= L}

\* range(0, len(years), nprocs): the start indices, counted from 0
BatchStarts(L, n) == {i \in 0..(L - 1) : i % n = 0}

\* mutant of Slice: the slice takes one year more
SliceWide(s, i, n) == SubSeq(s, i + 1, Min(i + n + 1, Len(s)))

\* years[i:i + nprocs], i counted from 0
Slice(s, i, n) == SubSeq(s, i + 1, Min(i + n, Len(s)))

\* [years[i:i + nprocs] for i in range(0, len(years), nprocs)]
NthStart(L, n, k) ==
    CHOOSE i \in BatchStarts(L, n) : Cardinality({j \in BatchStarts(L, n) : j < i}) = k - 1

Batches(s, n) ==
    [k \in 1..Cardinality(BatchStarts(Len(s), n)) |-> Slice(s, NthStart(Len(s), n, k), n)]

\* ------------------------------------------------------------ CDS_retriever
\* The years of the per-year files and the merged files of a variable
PerYearOf(v) == {y \in Years : peryear[<<v, y>>] # "none"}
BigOf(v) == {m \in merged : m[1] = v}

\* first_last_year(filepattern): smallest and largest year token of the
\* matching file names
YearTokens(names) == {m[2] : m \in names} \cup {m[3] : m \in names}
FirstYearOf(S) == SetMin(S)
LastYearOf(S) == SetMax(S)

\* which_new_years_download: the year after the latest year present, up to
\* the present calendar year
LatestPresent(v) == SetMax(PerYearOf(v) \cup YearTokens(BigOf(v)))
HasArchive(v) == PerYearOf(v) \cup YearTokens(BigOf(v)) # {}
WhichNewYears(v) == <<LatestPresent(v) + 1, ThisYear>>

\* ------------------------------------------------------------ cdo
Midnight == 0
ShiftHours == 6
\* cdo.showtime(input='-seltimestep,1 ...')[0]: the hour of the day
FirstTime(t) == t % 24
\* mutant of ShiftTime: the shift goes forward
ShiftTimeForward(t) == t + ShiftHours

\* cdo.shifttime('-6hours')
ShiftTime(t) == t - ShiftHours
\* mutant of Aligned: the shift is made without looking at the first time step
AlignedAlways(t) == ShiftTime(t)

\* lines 182-187 as a function of the first time step of the merged file
Aligned(t) == IF FirstTime(t) # Midnight THEN ShiftTime(t) ELSE t

\* ------------------------------------------------------------ initial states
\* The configuration document (load_config) and the command line (parser)
Cfg(vl, b, e, u, f, n, r, p6, pd, pm, al) ==
    [varlist |-> vl, begin |-> b, end |-> e, update |-> u, freq |-> f, nprocs |-> n,
     do_retrieve |-> r, do_postproc_6h |-> p6, do_postproc_day |-> pd,
     do_postproc_mon |-> pm, do_align |-> al]

Args(c, n, u) == [config |-> c, nprocs |-> n, update |-> u]

\* args.nprocs is None without --nprocs, an integer with it
NotGiven == <<>>
NprocsArgs == {NotGiven} \cup {<<n>> : n \in 0..MaxProcs}

\* The archive of one variable before the run: the years of its per-year
\* files and the last year of a merged file that starts at year 1 (0: none)
Archive(P, b) == [per |-> P, big |-> b]
NoArchive == Archive({}, 0)

PerYear0(arch) == [f \in Vars \X Years |-> IF f[2] \in arch[f[1]].per THEN "old" ELSE "none"]
Merged0(arch) == {<<v, 1, arch[v].big>> : v \in {w \in Vars : arch[w].big # 0}}

\* The cadences of the resampling and the resampled files of an earlier run
\* over the whole range of years
Cadences == {"6h", "day", "mon"}
OldResampled(v) == {<<v, c, 1, MaxYear, "old">> : c \in Cadences}

\* The directories the files of the archive, the raw files and the resampled
\* files lie in
Dirs0(c, arch, raw, res) ==
    {<<"tmpdir", f[1], "">> : f \in raw} \cup
    {<<"storedir", c.freq, "">> : v \in {w \in Vars : arch[w] # NoArchive}} \cup
    {<<"storedir", f[1], f[2]>> : f \in res}

InitWith(a, c, arch, raw, tf, res) ==
    /\ args = a
    /\ config = c
    /\ pc = "start"
    /\ vi = 0
    /\ year1 = 0 /\ year2 = 0 /\ update = FALSE /\ nprocs = 0
    /\ do_retrieve = FALSE /\ do_postproc = FALSE
    /\ years = <<>> /\ yearlist = <<>> /\ bi = 0 /\ yi = 0 /\ processes = <<>>
    /\ first_year = 0 /\ last_year = 0
    /\ filepattern = [str |-> TRUE, big |-> {}, yearly |-> {}]
    /\ mergefile = <<"", 0, 0>>
    /\ time_list = <<>> /\ xi = 0
    /\ active = {}
    /\ rawfiles = raw
    /\ peryear = PerYear0(arch)
    /\ merged = Merged0(arch)
    /\ mtime = 0
    /\ tempfile = tf
    /\ resampled = res
    /\ dirs = Dirs0(c, arch, raw, res)
    /\ merged0 = Merged0(arch)
    /\ faults = 0

AllRaw == Vars \X Years
Ranges == {<<1, MaxYear>>, <<2, MaxYear>>, <<1, 1>>, <<2, 1>>}

\* the archives a run can find
ArchiveChoices ==
    {NoArchive, Archive({1}, 0), Archive({}, 1), Archive({}, MaxYear),
     Archive(Years, MaxYear), Archive({2}, 1)}

\* no configuration document on the command line: nothing is loaded
NoConfig == Cfg(<<>>, 0, 0, FALSE, "mon", 0, FALSE, FALSE, FALSE, FALSE, FALSE)

InitNoConfig ==
    \E n \in NprocsArgs, u \in BOOLEAN, a1 \in ArchiveChoices, raw \in {{}, AllRaw} :
        InitWith(Args(FALSE, n, u), NoConfig,
                 [v \in Vars |-> IF v = VarNames[1] THEN a1 ELSE NoArchive], raw,
                 FALSE, {})

\* the scheduling of the batches: year ranges, ceilings, one or two variables
InitSched ==
    \E vl \in VarLists, r \in Ranges, n \in 1..MaxProcs, an \in NprocsArgs,
       f \in Freqs, raw \in {{}, AllRaw}, dr \in BOOLEAN :
        InitWith(Args(TRUE, an, FALSE),
                 Cfg(vl, r[1], r[2], FALSE, f, n, dr, TRUE, TRUE, TRUE, TRUE),
                 [v \in Vars |-> NoArchive], raw, FALSE, {})

\* runs over an existing archive, with and without update mode
InitArchive ==
    \E a1 \in ArchiveChoices, a2 \in ArchiveChoices, u \in BOOLEAN, au \in BOOLEAN,
       f \in Freqs, dr \in BOOLEAN :
        InitWith(Args(TRUE, NotGiven, au),
                 Cfg(VarNames, 1, MaxYear, u, f, MaxProcs, dr, TRUE, TRUE, TRUE, TRUE),
                 [v \in Vars |-> IF v = VarNames[1] THEN a1 ELSE a2],
                 IF dr THEN {} ELSE AllRaw, FALSE, {})

\* the post-processing switches, with and without the files an earlier run
\* left: the temporary file of an alignment that failed, the resampled files
InitSwitches ==
    \E p6 \in BOOLEAN, pd \in BOOLEAN, pm \in BOOLEAN, al \in BOOLEAN, f \in Freqs,
       a1 \in {NoArchive, Archive({1}, 0)}, left \in BOOLEAN :
        InitWith(Args(TRUE, NotGiven, FALSE),
                 Cfg(<<VarNames[1]>>, 1, MaxYear, FALSE, f, MaxProcs, TRUE, p6, pd, pm, al),
                 [v \in Vars |-> IF v = VarNames[1] THEN a1 ELSE NoArchive], {},
                 left /\ f = "mon",
                 IF left /\ f # "mon" THEN OldResampled(VarNames[1]) ELSE {})

Init == InitNoConfig \/ InitSched \/ InitArchive \/ InitSwitches

\* the runs of the scheduling that start from nothing, with the update
\* detection over the archives a run can find: every variable list, year
\* range and ceiling
InitFromNothing ==
    \E vl \in VarLists, r \in Ranges, n \in 1..MaxProcs, f \in Freqs, u \in BOOLEAN,
       a1 \in {NoArchive, Archive({1}, 0), Archive(Years, MaxYear)} :
        InitWith(Args(TRUE, NotGiven, u),
                 Cfg(vl, r[1], r[2], FALSE, f, n, TRUE, TRUE, TRUE, TRUE, TRUE),
                 [v \in Vars |-> IF v = VarNames[1] THEN a1 ELSE NoArchive], {},
                 FALSE, {})

FairInit == InitNoConfig \/ InitFromNothing \/ InitSwitches

\* ------------------------------------------------------------ main()
var == config.varlist[vi]
freq == config.freq

\* the end of one iteration of the loop over varlist
NextVar == vi' = vi + 1 /\ pc' = "for_var"

\* mutant of NprocsOf: the command line is not looked at
NprocsOfConfig == config.nprocs

\* lines 66-68: if args.nprocs: nprocs = args.nprocs
NprocsOf ==
    IF args.nprocs = NotGiven THEN config.nprocs
    ELSE IF args.nprocs[1] # 0 THEN args.nprocs[1] ELSE config.nprocs

\* lines 69-71: if args.update: update = args.update
UpdateOf == IF args.update THEN args.update ELSE config.update

\* mutant of ConfigGiven: the test of args.config is left out
ConfigGivenAlways == TRUE

\* if args.config
ConfigGiven == args.config

\* lines 31-75: parse the command line, load the configuration, apply the
\* command-line overrides; without a configuration, sys.exit with a message
Start ==
    /\ pc = "start"
    /\ IF ConfigGiven
       THEN /\ year1' = config.begin
            /\ year2' = config.end
            /\ do_retrieve' = config.do_retrieve
            /\ do_postproc' = AnyPostproc(config)
            /\ nprocs' = NprocsOf
            /\ update' = UpdateOf
            /\ vi' = 1
            /\ pc' = "for_var"
       ELSE /\ pc' = "exit_error"
            /\ UNCHANGED <<locals, vi>>
    /\ UNCHANGED <<inputs, batchvars, mergevars, resvars, active, files, faults>>

\* mutant of DisablesPostproc: an empty range disables the post-processing
\* at every frequency
DisablesPostprocAlways(f) == TRUE

\* line 86: if (freq == 'mon')
DisablesPostproc(f) == f = "mon"

\* lines 77-96: next variable, update detection, list of years
ForVar ==
    /\ pc = "for_var"
    /\ IF vi > Len(config.varlist)
       THEN /\ pc' = "done"
            /\ UNCHANGED <<year1, year2, do_retrieve, do_postproc, years, dirs>>
       ELSE IF update /\ ~HasArchive(var)
       THEN /\ pc' = "exc_detect"
            /\ UNCHANGED <<year1, year2, do_retrieve, do_postproc, years, dirs>>
       ELSE /\ year1' = IF update THEN WhichNewYears(var)[1] ELSE year1
            /\ year2' = IF update THEN WhichNewYears(var)[2] ELSE year2
            /\ do_retrieve' = IF update /\ year1' > year2' THEN FALSE ELSE do_retrieve
            /\ do_postproc' = IF update /\ year1' > year2' /\ DisablesPostproc(freq)
                              THEN FALSE ELSE do_postproc
            /\ years' = YearsOf(year1', year2')
            /\ dirs' = dirs \cup {<<"tmpdir", var, "">>}
            /\ pc' = "retrieve"
    /\ UNCHANGED <<inputs, vi, update, nprocs, yearlist, bi, yi, processes,
                   mergevars, resvars, active, rawfiles, peryear, merged, mtime,
                   tempfile, resampled, faults>>

\* ------------------------------------------------------------ workers
\* Process(target=year_retrieve, ...) and Process(target=year_convert, ...)
Worker(k, v, y, b) == [kind |-> k, var |-> v, year |-> y, batch |-> b]

lyears == yearlist[bi]
year == lyears[yi]

\* p.start(); processes.append(p)
StartWorker(w) ==
    /\ active' = active \cup {w}
    /\ processes' = Append(processes, w)

\* mutant of Joined: the join does not return after a worker's fault
JoinedUnlessFault ==
    (\A i \in 1..Len(processes) : processes[i] \notin active) /\ faults = 0

\* mutant of Joined: only the last process started is joined
JoinedLastOnly ==
    IF processes = <<>> THEN TRUE ELSE processes[Len(processes)] \notin active

\* for process in processes: process.join() returns once none of them runs
Joined == \A i \in 1..Len(processes) : processes[i] \notin active

\* lines 99-103: the retrieve block is entered or skipped
Retrieve ==
    /\ pc = "retrieve"
    /\ IF do_retrieve
       THEN /\ processes' = <<>>
            /\ yearlist' = Batches(years, nprocs)
            /\ bi' = 1 /\ yi' = 1
            /\ pc' = "retr_loop"
       ELSE /\ pc' = "postproc"
            /\ UNCHANGED <<yearlist, bi, yi, processes>>
    /\ UNCHANGED <<inputs, vi, locals, years, mergevars, resvars, active, files, faults>>

\* lines 104-111: one step of the loops over yearlist and lyears
RetrLoop ==
    /\ pc = "retr_loop"
    /\ IF bi > Len(yearlist)
       THEN /\ pc' = "postproc"
            /\ UNCHANGED <<bi, yi, processes, active>>
       ELSE IF yi > Len(lyears)
       THEN /\ pc' = "retr_join"
            /\ UNCHANGED <<bi, yi, processes, active>>
       ELSE /\ StartWorker(Worker("retrieve", var, year, bi))
            /\ yi' = yi + 1
            /\ UNCHANGED <<pc, bi>>
    /\ UNCHANGED <<inputs, vi, locals, years, yearlist, mergevars, resvars, files, faults>>

\* lines 114-115: wait for all the processes to end
RetrJoin ==
    /\ pc = "retr_join"
    /\ Joined
    /\ bi' = bi + 1 /\ yi' = 1
    /\ pc' = "retr_loop"
    /\ UNCHANGED <<inputs, vi, locals, years, yearlist, processes, mergevars, resvars,
                   active, files, faults>>

\* lines 118-128: the postproc block is entered or skipped
Postproc ==
    /\ pc = "postproc"
    /\ IF do_postproc
       THEN /\ processes' = <<>>
            /\ yearlist' = Batches(years, nprocs)
            /\ bi' = 1 /\ yi' = 1
            /\ dirs' = dirs \cup {<<"storedir", freq, "">>}
            /\ pc' = "conv_loop"
            /\ vi' = vi
       ELSE /\ NextVar
            /\ UNCHANGED <<yearlist, bi, yi, processes, dirs>>
    /\ UNCHANGED <<inputs, locals, years, mergevars, resvars, active, rawfiles, peryear,
                   merged, mtime, tempfile, resampled, faults>>

\* mutant of OutfileExists: the target file is never found
OutfileNeverExists(v, y) == FALSE

\* if os.path.exists(outfile)
OutfileExists(v, y) == peryear[<<v, y>>] # "none"

\* lines 129-143: one step of the conversion loops
ConvLoop ==
    /\ pc = "conv_loop"
    /\ IF bi > Len(yearlist)
       THEN /\ pc' = IF freq = "mon" THEN "merge" ELSE "resample"
            /\ UNCHANGED <<bi, yi, processes, active>>
       ELSE IF yi > Len(lyears)
       THEN /\ pc' = "conv_join"
            /\ UNCHANGED <<bi, yi, processes, active>>
       ELSE IF OutfileExists(var, year)
       THEN /\ yi' = yi + 1
            /\ UNCHANGED <<pc, bi, processes, active>>
       ELSE /\ StartWorker(Worker("convert", var, year, bi))
            /\ yi' = yi + 1
            /\ UNCHANGED <<pc, bi>>
    /\ UNCHANGED <<inputs, vi, locals, years, yearlist, mergevars, resvars, files, faults>>

\* lines 146-149
ConvJoin ==
    /\ pc = "conv_join"
    /\ Joined
    /\ bi' = bi + 1 /\ yi' = 1
    /\ pc' = "conv_loop"
    /\ UNCHANGED <<inputs, vi, locals, years, yearlist, processes, mergevars, resvars,
                   active, files, faults>>

\* year_retrieve ends: the raw file of the year is there unless the worker
\* ended with a fault
RetrieveEnds(w) ==
    /\ w \in active /\ w.kind = "retrieve"
    /\ active' = active \ {w}
    /\ \/ /\ rawfiles' = rawfiles \cup {<<w.var, w.year>>}
          /\ UNCHANGED faults
       \/ /\ faults < MaxFaults
          /\ faults' = faults + 1
          /\ UNCHANGED rawfiles
    /\ UNCHANGED <<inputs, pc, vi, locals, batchvars, mergevars, resvars,
                   peryear, merged, mtime, tempfile, resampled, dirs>>

\* year_convert ends: the per-year file is written from the raw file; without
\* a raw file, or with a fault, nothing is written
ConvertEnds(w) ==
    /\ w \in active /\ w.kind = "convert"
    /\ active' = active \ {w}
    /\ \/ /\ <<w.var, w.year>> \in rawfiles
          /\ peryear' = [peryear EXCEPT ![<<w.var, w.year>>] = "new"]
          /\ UNCHANGED faults
       \/ /\ <<w.var, w.year>> \notin rawfiles
          /\ UNCHANGED <<peryear, faults>>
       \/ /\ <<w.var, w.year>> \in rawfiles
          /\ faults < MaxFaults
          /\ faults' = faults + 1
          /\ UNCHANGED peryear
    /\ UNCHANGED <<inputs, pc, vi, locals, batchvars, mergevars, resvars,
                   rawfiles, merged, mtime, tempfile, resampled, dirs>>

\* ------------------------------------------------------------ monthly data
\* lines 155-171: the span and the inputs of the merge; an existing file of
\* the name of the merged file is removed.  first_last_year finds no year
\* when no file matches, and main() ends with that fault.
MergeNames ==
    /\ pc = "merge"
    /\ IF PerYearOf(var) = {} \/ (update /\ BigOf(var) = {})
       THEN /\ pc' = "exc_first_last_year"
            /\ UNCHANGED <<mergevars, merged>>
       ELSE /\ last_year' = LastYearOf(PerYearOf(var))
            /\ first_year' = IF update THEN FirstYearOf(YearTokens(BigOf(var)))
                                       ELSE FirstYearOf(PerYearOf(var))
            /\ filepattern' = IF update
                              THEN [str |-> FALSE, big |-> BigOf(var), yearly |-> PerYearOf(var)]
                              ELSE [str |-> TRUE, big |-> {}, yearly |-> {}]
            /\ mergefile' = <<var, first_year', last_year'>>
            /\ merged' = merged \ {mergefile'}
            /\ pc' = "cat"
    /\ UNCHANGED <<inputs, vi, locals, batchvars, resvars, active,
                   rawfiles, peryear, mtime, tempfile, resampled, dirs, faults>>

\* the input files of cdo.cat: the pattern is expanded when cdo runs, the
\* list was made by glob before
CatInputsExist ==
    IF filepattern.str
    THEN PerYearOf(var) # {}
    ELSE /\ filepattern.big \subseteq merged
         /\ filepattern.yearly \subseteq PerYearOf(var)

\* line 173: cdo.cat writes the merged file, or fails and main() ends
Cat ==
    /\ pc = "cat"
    /\ \/ /\ CatInputsExist
          /\ merged' = merged \cup {mergefile}
          /\ mtime' \in StartTimes
          /\ pc' = "clean"
       \/ /\ pc' = "exc_cat"
          /\ UNCHANGED <<merged, mtime>>
    /\ UNCHANGED <<inputs, vi, locals, batchvars, mergevars, resvars, active,
                   rawfiles, peryear, tempfile, resampled, dirs, faults>>

\* mutant of Removed: the per-year files are never removed
RemovedNever(v) == peryear

\* lines 174-177: the per-year files are removed when filepattern is a string
Removed(v) ==
    IF filepattern.str
    THEN [f \in Vars \X Years |-> IF f[1] = v THEN "none" ELSE peryear[f]]
    ELSE peryear

Clean ==
    /\ pc = "clean"
    /\ peryear' = Removed(var)
    /\ pc' = "align"
    /\ UNCHANGED <<inputs, vi, locals, batchvars, mergevars, resvars, active,
                   rawfiles, merged, mtime, tempfile, resampled, dirs, faults>>

\* lines 180-187: the time axis of the merged file is rolled back by 6 hours
\* when its first time step is not at midnight; when cdo.shifttime fails the
\* merged file is left under the name of the temporary file
Align ==
    /\ pc = "align"
    /\ \/ /\ mtime' = IF config.do_align THEN Aligned(mtime) ELSE mtime
          /\ tempfile' = IF mtime' # mtime THEN FALSE ELSE tempfile
          /\ NextVar
          /\ UNCHANGED merged
       \/ /\ config.do_align /\ FirstTime(mtime) # Midnight
          /\ merged' = merged \ {mergefile}
          /\ tempfile' = TRUE
          /\ pc' = "exc_shifttime"
          /\ UNCHANGED <<vi, mtime>>
    /\ UNCHANGED <<inputs, locals, batchvars, mergevars, resvars, active,
                   rawfiles, peryear, resampled, dirs, faults>>

\* mutant of TimeList: every cadence is resampled, whatever the switches
TimeListAll(c) == <<"6h", "day", "mon">>

\* ------------------------------------------------------------ hourly data
\* lines 196-202
TimeList(c) ==
    (IF c.do_postproc_6h THEN <<"6h">> ELSE <<>>) \o
    (IF c.do_postproc_day THEN <<"day">> ELSE <<>>) \o
    (IF c.do_postproc_mon THEN <<"mon">> ELSE <<>>)

\* lines 193-202
Resample ==
    /\ pc = "resample"
    /\ IF PerYearOf(var) = {}
       THEN /\ pc' = "exc_first_last_year"
            /\ UNCHANGED <<first_year, last_year, time_list, xi>>
       ELSE /\ first_year' = FirstYearOf(PerYearOf(var))
            /\ last_year' = LastYearOf(PerYearOf(var))
            /\ time_list' = TimeList(config)
            /\ xi' = 1
            /\ pc' = "res_loop"
    /\ UNCHANGED <<inputs, vi, locals, batchvars, filepattern, mergefile, active,
                   files, faults>>

x == time_list[xi]
thedir == <<"storedir", var, x>>
thefile == <<var, x, first_year, last_year>>
\* the file of a name, whatever its content, and the file as cdo writes it
Versions(name) == {<<name[1], name[2], name[3], name[4], c>> : c \in {"old", "new"}}
Written(name) == <<name[1], name[2], name[3], name[4], "new">>

\* lines 204-220: one cadence; the file is removed, then written by cdo,
\* which may fail
ResLoop ==
    /\ pc = "res_loop"
    /\ IF xi > Len(time_list)
       THEN /\ NextVar
            /\ UNCHANGED <<xi, resampled, dirs>>
       ELSE /\ dirs' = dirs \cup {thedir}
            /\ \/ /\ PerYearOf(var) # {}
                  /\ resampled' = (resampled \ Versions(thefile)) \cup {Written(thefile)}
                  /\ xi' = xi + 1
                  /\ UNCHANGED <<pc, vi>>
               \/ /\ resampled' = resampled \ Versions(thefile)
                  /\ pc' = "exc_resample"
                  /\ UNCHANGED <<xi, vi>>
    /\ UNCHANGED <<inputs, locals, batchvars, mergevars, time_list, active,
                   rawfiles, peryear, merged, mtime, tempfile, faults>>

\* ------------------------------------------------------------ specification
Next ==
    \/ Start
    \/ ForVar
    \/ Retrieve
    \/ RetrLoop
    \/ RetrJoin
    \/ Postproc
    \/ ConvLoop
    \/ ConvJoin
    \/ \E w \in active : RetrieveEnds(w)
    \/ \E w \in active : ConvertEnds(w)
    \/ MergeNames
    \/ Cat
    \/ Clean
    \/ Align
    \/ Resample
    \/ ResLoop

Spec == Init /\ [][Next]_vars

\* the steps of main(), and the end of a worker process
Main ==
    \/ Start \/ ForVar
    \/ Retrieve \/ RetrLoop \/ RetrJoin
    \/ Postproc \/ ConvLoop \/ ConvJoin
    \/ MergeNames \/ Cat \/ Clean \/ Align
    \/ Resample \/ ResLoop
WorkerEnds == \E w \in active : RetrieveEnds(w) \/ ConvertEnds(w)

\* the runs in which main() goes on while it can and every worker process
\* that was started ends
FairSpec == FairInit /\ [][Next]_vars /\ WF_vars(Main) /\ WF_vars(WorkerEnds)

\* ------------------------------------------------------------ properties
\* C11: missing configuration: in a run without a configuration document
\* every step ends the run in the error outcome, and no step starts a worker
\* or creates, changes or deletes a file or a directory.
MissingConfig ==
    [][~args.config =>
          /\ pc' = "exit_error"
          /\ active' = {}
          /\ files' = files]_vars

\* a run without a configuration has ended over an existing archive
MissingConfigWitness ==
    /\ ~args.config
    /\ pc = "exit_error"
    /\ merged # {} /\ rawfiles # {}

InRetrieval == pc \in {"retr_loop", "retr_join"}
InConversion == pc \in {"conv_loop", "conv_join"}

\* C1: batch barrier: in the retrieval and in the conversion phase, a worker
\* is started only when every worker still running belongs to the same batch
\* of the same phase of the same variable: no worker of batch k+1 starts while
\* a worker of batch k or of an earlier batch runs.
BatchBarrier ==
    [][\A w \in active' \ active : \A u \in active :
          u.batch = w.batch /\ u.kind = w.kind /\ u.var = w.var]_vars

\* a worker of the second batch runs (the first batch has been joined)
BatchBarrierWitness ==
    /\ \E w \in active : w.batch = 2
    /\ Len(yearlist[1]) = MaxProcs

\* C2: concurrency ceiling: the number of workers running at the same time
\* never exceeds nprocs.
Ceiling == Cardinality(active) <= nprocs

\* as many workers as the ceiling allows run at once, with more years to come
CeilingWitness ==
    /\ Cardinality(active) = nprocs
    /\ nprocs = MaxProcs
    /\ Len(years) > nprocs

CeilDiv(a, b) == (a + b - 1) \div b

\* C3: batch partition: the batches are ceil(L/N) consecutive slices of the
\* year list, in order, each of at most N years, and at the end of the
\* retrieval phase exactly one worker has been started for every year of the
\* list, in the order of the list.
BatchPartition ==
    /\ (InRetrieval \/ InConversion) =>
          /\ Len(yearlist) = CeilDiv(Len(years), nprocs)
          /\ \A k \in 1..Len(yearlist) :
                /\ Len(yearlist[k]) >= 1 /\ Len(yearlist[k]) <= nprocs
                /\ \A j \in 1..Len(yearlist[k]) :
                      /\ (k - 1) * nprocs + j <= Len(years)
                      /\ yearlist[k][j] = years[(k - 1) * nprocs + j]
          /\ \A i \in 1..Len(years) :
                \E k \in 1..Len(yearlist) : \E j \in 1..Len(yearlist[k]) :
                   (k - 1) * nprocs + j = i
    /\ (pc = "postproc" /\ do_retrieve) =>
          /\ Len(processes) = Len(years)
          /\ \A i \in 1..Len(years) :
                processes[i] = Worker("retrieve", var, years[i], CeilDiv(i, nprocs))

\* the retrieval phase has ended for a list whose last batch is not full
BatchPartitionWitness ==
    /\ pc = "postproc" /\ do_retrieve
    /\ Len(years) = MaxYear
    /\ nprocs > 1
    /\ Len(years) % nprocs # 0
    /\ Len(processes) = MaxYear

\* C4: aggregator replacement law: after a successful monthly merge, in
\* update mode as in non-update mode, no per-year file of the variable is
\* left in the store directory and the merged file of the span exists.
ReplacementLaw ==
    pc = "align" =>
        /\ PerYearOf(var) = {}
        /\ mergefile = <<var, first_year, last_year>>
        /\ mergefile \in merged

\* C5: update-mode merge: with an old merged file (A, B) and per-year files
\* up to year C, the merge in update mode writes the file (A, C), and after
\* it the old merged file and the per-year files are gone, so that no other
\* merged file of the variable is left beside the new one.
UpdateMergeLaw ==
    (pc = "align" /\ update) =>
        \A m \in merged0 :
            (m[1] = var /\ m[3] < last_year) =>
                /\ mergefile = <<var, m[2], last_year>>
                /\ mergefile \in merged
                /\ m \notin merged
                /\ \A y \in (m[3] + 1)..last_year : peryear[<<var, y>>] = "none"

\* C6: per-variable up-to-date handling: when the loop reaches the retrieve
\* block of a variable whose year range is not empty, retrieval and
\* post-processing are enabled as the configuration says, whatever was
\* detected for the variables before it.
PerVariableDisable ==
    (pc = "retrieve" /\ year1 <= year2) =>
        /\ do_retrieve = config.do_retrieve
        /\ do_postproc = AnyPostproc(config)

\* C7: conversion skip law: during the conversion phase a worker is started
\* only for a year whose target file does not exist, and no step of the
\* phase changes a per-year file that exists.
ConversionSkip ==
    [][InConversion =>
          /\ \A w \in active' \ active : peryear[<<w.var, w.year>>] = "none"
          /\ \A f \in Vars \X Years : peryear[f] # "none" => peryear'[f] = peryear[f]]_vars

\* the scheduler has passed a year whose target file was there before the
\* run: no worker was started for it and the file is as it was
ConversionSkipWitness ==
    /\ pc = "conv_loop" /\ bi = 1 /\ yi = 2
    /\ peryear[<<var, yearlist[1][1]>>] = "old"
    /\ processes = <<>>

\* C8: empty-range short-circuit: while the working year range is empty
\* (year1 > year2) no retrieval worker and no conversion worker runs.
EmptyRange == year1 > year2 => active = {}

\* both schedulers have been through an empty range
EmptyRangeWitness ==
    /\ year1 > year2
    /\ config.do_retrieve /\ do_postproc
    /\ pc \in {"merge", "resample"}
    /\ processes = <<>>

\* C9 as stated: whatever the first time step of the merged file, the file
\* the alignment leaves is left unchanged by a second alignment.
AlignIdempotentAlways ==
    [][(pc = "align" /\ pc' = "for_var" /\ config.do_align) =>
          Aligned(mtime') = mtime']_vars

\* C9 as amended: for a merged file whose first time step is at 00:00 or at
\* 06:00, the file the alignment leaves is left unchanged by a second
\* alignment.
AlignIdempotent ==
    [][(pc = "align" /\ pc' = "for_var" /\ config.do_align
          /\ FirstTime(mtime) \in {Midnight, ShiftHours}) =>
          Aligned(mtime') = mtime']_vars

\* the alignment has rolled back a file that started at 06:00 of the second day
AlignIdempotentWitness ==
    /\ pc = "for_var" /\ vi > 1
    /\ config.do_align /\ freq = "mon"
    /\ mergefile \in merged
    /\ mtime = 24

\* C10: merge ordering: while the merge has not succeeded, and when it has
\* failed, every merged file that was there before the run is still there.
MergedKeptUntilSuccess == pc \in {"cat", "exc_cat"} => merged0 \subseteq merged

\* the ceiling the batches of both schedulers are cut with
BatchesCutWith(n) ==
    (InRetrieval \/ InConversion) =>
        \A k \in 1..Len(yearlist) :
            Len(yearlist[k]) = Min(n, Len(years) - (k - 1) * n)

\* C12 as stated: a given --nprocs value is the ceiling of both schedulers,
\* --update puts the run in update mode, and without a flag the configured
\* value is used.
CommandLineOverrides ==
    pc \notin {"start", "exit_error"} =>
        /\ nprocs = IF args.nprocs # NotGiven THEN args.nprocs[1] ELSE config.nprocs
        /\ update = (args.update \/ config.update)
        /\ BatchesCutWith(IF args.nprocs # NotGiven THEN args.nprocs[1] ELSE config.nprocs)

\* C12 as amended: a given --nprocs value other than 0 is the ceiling of both
\* schedulers, with --nprocs 0 and without --nprocs the configured nprocs
\* is; --update puts the run in update mode, without it year.update decides.
CommandLineOverridesNonZero ==
    pc \notin {"start", "exit_error"} =>
        /\ (args.nprocs \notin {NotGiven, <<0>>}) =>
              nprocs = args.nprocs[1] /\ BatchesCutWith(args.nprocs[1])
        /\ (args.nprocs \in {NotGiven, <<0>>}) =>
              nprocs = config.nprocs /\ BatchesCutWith(config.nprocs)
        /\ update = (args.update \/ config.update)

\* the conversion runs in batches of the ceiling of the command line, which
\* is larger than the configured one
CommandLineOverridesWitness ==
    /\ InConversion
    /\ args.nprocs = <<MaxProcs>> /\ config.nprocs = 1
    /\ Len(years) >= MaxProcs
    /\ Len(yearlist[1]) = MaxProcs

\* C13: sibling isolation: the step in which a worker ends with a fault ends
\* that worker alone, leaves the other workers running and changes neither a
\* file nor a variable of main(); and whenever a step leaves main() at a join
\* with every worker of the list ended, with or without fault, the join
\* returns and main() goes on.
SiblingIsolation ==
    [][/\ faults' > faults =>
             /\ \E w \in active : active' = active \ {w}
             /\ <<pc, vi, locals, batchvars, mergevars, resvars, files>>' =
                <<pc, vi, locals, batchvars, mergevars, resvars, files>>
       /\ (pc' = "retr_join" /\ \A i \in 1..Len(processes') : processes'[i] \notin active')
             => (ENABLED RetrJoin)'
       /\ (pc' = "conv_join" /\ \A i \in 1..Len(processes') : processes'[i] \notin active')
             => (ENABLED ConvJoin)']_vars

\* a retrieval of the first batch ended with a fault (its raw file is
\* missing) and the workers of the second batch run
SiblingIsolationWitness ==
    /\ InRetrieval /\ bi = 2 /\ active # {}
    /\ faults > 0
    /\ \E j \in 1..Len(yearlist[1]) : <<var, yearlist[1][j]>> \notin rawfiles

\* C14: phase ordering: every running worker belongs to the phase main() is
\* in and to the variable main() is at: retrieval workers run only during
\* the retrieval loops, conversion workers only during the conversion loops,
\* and outside these loops (update detection, merge, alignment, resampling,
\* the change to the next variable) no worker runs.
PhaseOrdering ==
    /\ \A w \in active :
          /\ w.var = var
          /\ w.kind = "retrieve" => InRetrieval
          /\ w.kind = "convert" => InConversion
    /\ ~(InRetrieval \/ InConversion) => active = {}

\* the merge of the second variable starts after its conversion workers
\* and its retrieval workers have run
PhaseOrderingWitness ==
    /\ pc = "merge" /\ vi = 2
    /\ Len(processes) > 1
    /\ \E y \in Years : <<var, y>> \in rawfiles /\ peryear[<<var, y>>] = "new"
    /\ config.do_retrieve

\* C15: alignment step: a step of the alignment that main() gets through
\* leaves the merged file under its name; with do_align and a first time
\* step that is not at midnight the time axis is 6 hours earlier and the
\* temporary file is gone; otherwise the merged file and the temporary file
\* are as they were.
AlignmentStep ==
    [][(pc = "align" /\ pc' = "for_var") =>
          /\ mergefile \in merged'
          /\ IF config.do_align /\ mtime % 24 # 0
             THEN mtime' = mtime - 6 /\ ~tempfile'
             ELSE mtime' = mtime /\ merged' = merged /\ tempfile' = tempfile]_vars

\* a merged file that started at 12:00 has been rolled back to 06:00
AlignmentStepWitness ==
    /\ pc = "for_var" /\ vi > 1
    /\ config.do_align /\ freq = "mon"
    /\ mergefile \in merged
    /\ mtime = 30
    /\ ~tempfile

\* the switch of a cadence in the configuration
SwitchOf(c) ==
    CASE c = "6h" -> config.do_postproc_6h
      [] c = "day" -> config.do_postproc_day
      [] c = "mon" -> config.do_postproc_mon

\* C16: resampler: with sub-daily source data no step creates or removes a
\* resampled file of a cadence that is disabled, and when the resampling loop
\* of a variable is left, the file written by this run exists for a cadence
\* if and only if that cadence is enabled, and no file of an earlier run is
\* left under the name of an enabled cadence.
Resampler ==
    [][config.freq # "mon" =>
          \A c \in Cadences :
              /\ ~SwitchOf(c) =>
                    {f \in resampled' : f[2] = c} = {f \in resampled : f[2] = c}
              /\ (pc = "res_loop" /\ pc' \notin {"res_loop", "exc_resample"}) =>
                    /\ SwitchOf(c) <=>
                          <<var, c, first_year, last_year, "new">> \in resampled'
                    /\ SwitchOf(c) =>
                          <<var, c, first_year, last_year, "old">> \notin resampled']_vars

\* the daily file has replaced the one of an earlier run, the 6-hourly one
\* of the earlier run is untouched since that cadence is disabled
ResamplerWitness ==
    /\ pc = "done" /\ config.freq # "mon"
    /\ config.do_postproc_day /\ ~config.do_postproc_6h
    /\ <<VarNames[1], "day", 1, MaxYear, "new">> \in resampled
    /\ <<VarNames[1], "day", 1, MaxYear, "old">> \notin resampled
    /\ <<VarNames[1], "6h", 1, MaxYear, "old">> \in resampled

\* C17: in update mode with an empty detected range the retrieval is
\* disabled; at a frequency other than monthly the post-processing switch
\* stays what the configuration makes it, no conversion worker is started
\* and the run goes on to the resampling; only at monthly frequency is the
\* post-processing disabled.
EmptyUpdateRange ==
    /\ (pc \notin {"start", "exit_error"} /\ config.freq # "mon") =>
          do_postproc = \/ config.do_postproc_6h
                        \/ config.do_postproc_day
                        \/ config.do_postproc_mon
    /\ (/\ update /\ year1 > year2
        /\ pc \notin {"start", "exit_error", "for_var", "done", "exc_detect"}) =>
          /\ ~do_retrieve
          /\ config.freq = "mon" => ~do_postproc
          /\ config.freq # "mon" =>
                /\ active = {}
                /\ pc \notin {"retr_loop", "retr_join", "conv_join", "merge"}
                /\ pc \in {"conv_loop", "resample", "res_loop"} => processes = <<>>

\* the per-year files of the archive have been resampled again by an update
\* that found nothing to download
EmptyUpdateRangeWitness ==
    /\ pc = "res_loop" /\ xi > 1
    /\ update /\ year1 > year2 /\ config.freq # "mon"
    /\ processes = <<>>
    /\ <<var, time_list[1], first_year, last_year, "new">> \in resampled

\* C18: with do_postproc_6h, do_postproc_day and do_postproc_mon all
\* disabled no step of a run starts a conversion worker, and no step creates,
\* replaces or deletes a per-year, merged or resampled file or a directory of
\* the store, at any frequency.
NoPostproc ==
    [][(/\ ~config.do_postproc_6h
        /\ ~config.do_postproc_day
        /\ ~config.do_postproc_mon) =>
          /\ \A w \in active' \ active : w.kind # "convert"
          /\ <<peryear, merged, mtime, resampled>>' = <<peryear, merged, mtime, resampled>>
          /\ {d \in dirs' : d[1] = "storedir"} = {d \in dirs : d[1] = "storedir"}]_vars

\* a run that downloaded its raw files and ended without post-processing
NoPostprocWitness ==
    /\ pc = "done" /\ vi > 1
    /\ args.config /\ config.do_retrieve
    /\ ~config.do_postproc_6h /\ ~config.do_postproc_day /\ ~config.do_postproc_mon
    /\ \A y \in Years : <<VarNames[1], y>> \in rawfiles
    /\ \A y \in Years : peryear[<<VarNames[1], y>>] = "none"

\* C19: at a frequency other than monthly no step of the run deletes a
\* per-year file, so that every per-year file there is after the conversion
\* is there at the end of the run; at monthly frequency, outside update mode,
\* the step after the merge leaves no per-year file of the variable.
PerYearKept ==
    [][/\ config.freq # "mon" =>
             \A f \in Vars \X Years : peryear[f] # "none" => peryear'[f] = peryear[f]
       /\ (config.freq = "mon" /\ ~update /\ pc = "clean") =>
             \A y \in Years : peryear'[<<var, y>>] = "none"]_vars

\* a sub-daily run has converted and resampled all the years and ended with
\* the per-year files in place
PerYearKeptWitness ==
    /\ pc = "done" /\ vi > 1
    /\ config.freq # "mon"
    /\ \A y \in Years : peryear[<<VarNames[1], y>>] = "new"
    /\ \E f \in resampled : f[1] = VarNames[1] /\ f[5] = "new"

\* the places where main() ends with an error that nothing handles
Failed == {"exc_detect", "exc_first_last_year", "exc_cat", "exc_shifttime", "exc_resample"}

\* a process of the list that a join waits for is still running
Waiting ==
    /\ pc \in {"retr_join", "conv_join"}
    /\ \E i \in 1..Len(processes) : processes[i] \in active

====
